---- MODULE Spec2Model ----
(***************************************************************************)
(* Model of src/elysiaApp.ts: an Elysia application with one decorated     *)
(* in-memory store { items, nextId } and five route handlers on /items.    *)
(*                                                                         *)
(* store.items is a JavaScript array reference; arrays live in `heap`.     *)
(* Clients send requests concurrently, one at a time each.  A request      *)
(* arrives, is dispatched by the event loop, runs its handler statement by *)
(* statement and ends with a response;                                     *)
(* `returned` is the most recent response, with the request it answers.    *)
(* Arrays that nothing refers to any more are garbage collected.           *)
(* The handlers are synchronous functions, so the JavaScript event loop    *)
(* runs one to completion before it starts another: `running` holds the    *)
(* client whose handler is on the call stack.                              *)
(***************************************************************************)
EXTENDS Integers, Sequences, FiniteSets, TLC

\* ---- bounds of the model ------------------------------------------------
MaxReq == 4          \* requests sent in one run, all clients together
MaxId == 2           \* Create is cut off once nextId exceeds this

Clients == {"c1", "c2"}              \* each has one request in flight at a time
IdParams == 0..MaxId                 \* values of the :id path parameter
Names == {"Widget", "Gadget"}        \* values of body.name

NoItem == [id |-> -1, name |-> ""]
NoReq == [kind |-> "", id |-> -1, name |-> ""]
NoResp == [status |-> 0, text |-> "", item |-> NoItem, ref |-> 0]
NoReturn == [req |-> NoReq, resp |-> NoResp, present |-> FALSE]
NoCall == [items |-> <<>>, nextId |-> 0]
Hole == [id |-> -2, name |-> ""]     \* empty slot of a sparse array

VARIABLES
  store,          \* [items |-> array reference, nextId |-> number]
  heap,           \* heap[ref]: the array object a reference points to
  req,            \* req[c]: the request of client c (method, params.id, body.name)
  pc,             \* pc[c]: position of the request of c in its handler
  sent,           \* number of requests sent so far
  running,        \* the clients whose handler is on the call stack
  newItem,        \* local of the POST handler
  itemIndex,      \* local of the PUT handler
  initialLength,  \* local of the DELETE handler
  returned,       \* the most recent handler return: request, response, presence
  listRef,        \* listRef[c]: the array GET /items last handed to c, or 0
  created,        \* history: ids returned by POST, in order of return
  deleted,        \* history: ids whose DELETE answered 200
  presentAtCall,  \* was params.id in the store when the running handler began
  snapshot,       \* history: contents of listRef[c] when GET /items returned it
  cleanLists,     \* history: clients whose last GET /items no mutation has followed
  written,        \* history: for each id not removed since, the name last written
  atCall          \* history: items and nextId when the running handler of c began

vars == <<store, heap, req, pc, sent, running, newItem, itemIndex, initialLength,
          returned, listRef, created, deleted, presentAtCall, snapshot, cleanLists,
          written, atCall>>

\* ---- helpers ------------------------------------------------------------
Items == heap[store.items]

Ids(arr) == {arr[i].id : i \in 1..Len(arr)}

\* Array.prototype.find: first element with the id, or NoItem (undefined)
Find(arr, id) ==
  IF \E i \in 1..Len(arr) : arr[i].id = id
  THEN arr[CHOOSE i \in 1..Len(arr) :
             arr[i].id = id /\ \A j \in 1..(i-1) : arr[j].id # id]
  ELSE NoItem

\* Array.prototype.findIndex: 0-based index of the first match, or -1
FindIndex(arr, id) ==
  IF \E i \in 1..Len(arr) : arr[i].id = id
  THEN (CHOOSE i \in 1..Len(arr) :
             arr[i].id = id /\ \A j \in 1..(i-1) : arr[j].id # id) - 1
  ELSE -1

\* Array.prototype.filter((i) => i.id !== id): a new array
RECURSIVE Filter(_, _)
Filter(arr, id) ==
  IF arr = <<>> THEN <<>>
  ELSE IF Head(arr).id # id THEN <<Head(arr)>> \o Filter(Tail(arr), id)
       ELSE Filter(Tail(arr), id)

\* arr[i] = v with a 0-based index; past the end JavaScript grows the array
ArraySet(arr, i, v) ==
  IF i < Len(arr) THEN [arr EXCEPT ![i + 1] = v]
  ELSE arr \o [k \in 1..(i - Len(arr)) |-> Hole] \o <<v>>

NotFoundResp == [NoResp EXCEPT !.status = 404, !.text = "Item not found"]
DeletedResp == [NoResp EXCEPT !.status = 200, !.text = "Item deleted successfully"]
ItemResp(item) == [NoResp EXCEPT !.status = 200, !.item = item]
ArrayResp(ref) == [NoResp EXCEPT !.status = 200, !.ref = ref]

\* The handler of request c returns `response`: the request is answered
\* and its locals go out of scope.
Finish(c, response, present) ==
  /\ returned' = [req |-> req[c], resp |-> response, present |-> present]
  /\ req' = [req EXCEPT ![c] = NoReq]
  /\ presentAtCall' = [presentAtCall EXCEPT ![c] = FALSE]
  /\ atCall' = [atCall EXCEPT ![c] = NoCall]
  /\ pc' = [pc EXCEPT ![c] = "idle"]

\* The name `name` is written for `id` / the item `id` is removed.
Erase(id) == {w \in written : w.id # id}
Write(id, name) == Erase(id) \cup {[id |-> id, name |-> name]}

\* A reference for a new array: the smallest one not in use.
NewRef == CHOOSE n \in 1..(Cardinality(DOMAIN heap) + 1) :
            n \notin DOMAIN heap /\ \A m \in 1..(n - 1) : m \in DOMAIN heap

\* The arrays still referred to once store.items is `ref`: that one and
\* those handed back by GET /items.
Live(ref) == {ref} \cup ({listRef[q] : q \in Clients} \ {0})

\* Variant of CanRun: handlers declared async and suspended between
\* statements, so that statements of different handlers interleave.
CanRunInterleaved(c) == TRUE

\* A synchronous handler runs to completion: a handler statement executes
\* only if no other handler is on the call stack.
CanRun(c) == running \subseteq {c}

\* ---- initial state ------------------------------------------------------
\* Variant of Init: the counter seeded at 0 (`nextId: 0`).
InitSeedZero ==
  /\ store = [items |-> 1, nextId |-> 0]
  /\ heap = [n \in {1} |-> <<>>]
  /\ req = [c \in Clients |-> NoReq]
  /\ pc = [c \in Clients |-> "idle"]
  /\ sent = 0
  /\ running = {}
  /\ newItem = [c \in Clients |-> NoItem]
  /\ itemIndex = [c \in Clients |-> -1]
  /\ initialLength = [c \in Clients |-> 0]
  /\ returned = NoReturn
  /\ listRef = [c \in Clients |-> 0]
  /\ created = <<>>
  /\ deleted = {}
  /\ presentAtCall = [c \in Clients |-> FALSE]
  /\ snapshot = [c \in Clients |-> <<>>]
  /\ cleanLists = {}
  /\ written = {}
  /\ atCall = [c \in Clients |-> NoCall]

Init ==
  /\ store = [items |-> 1, nextId |-> 1]
  /\ heap = [n \in {1} |-> <<>>]
  /\ req = [c \in Clients |-> NoReq]
  /\ pc = [c \in Clients |-> "idle"]
  /\ sent = 0
  /\ running = {}
  /\ newItem = [c \in Clients |-> NoItem]
  /\ itemIndex = [c \in Clients |-> -1]
  /\ initialLength = [c \in Clients |-> 0]
  /\ returned = NoReturn
  /\ listRef = [c \in Clients |-> 0]
  /\ created = <<>>
  /\ deleted = {}
  /\ presentAtCall = [c \in Clients |-> FALSE]
  /\ snapshot = [c \in Clients |-> <<>>]
  /\ cleanLists = {}
  /\ written = {}
  /\ atCall = [c \in Clients |-> NoCall]

\* ---- a request arrives --------------------------------------------------
Arrive(c) ==
  /\ pc[c] = "idle"
  /\ sent < MaxReq
  /\ sent' = sent + 1
  /\ \E k \in {"LIST", "GET", "POST", "PUT", "DELETE"}, id \in IdParams, n \in Names :
       /\ k \in {"LIST", "POST"} => id = 0
       /\ k \in {"LIST", "GET", "DELETE"} => n = "Widget"
       /\ req' = [req EXCEPT ![c] =
                    [kind |-> k,
                     id |-> IF k \in {"LIST", "POST"} THEN -1 ELSE id,
                     name |-> IF k \in {"POST", "PUT"} THEN n ELSE ""]]
  /\ pc' = [pc EXCEPT ![c] = "pending"]
  /\ UNCHANGED <<store, heap, running, newItem, itemIndex, initialLength,
                 returned, listRef, created, deleted, presentAtCall, snapshot,
                 cleanLists, written, atCall>>

\* ---- GET /items ---------------------------------------------------------
\* Variant of List: `return store.items.splice(0)` (splice for slice), which
\* returns the elements in a new array and empties store.items.
ListSplice(c) ==
  /\ pc[c] = "pending" /\ req[c].kind = "LIST" /\ CanRun(c)
  /\ heap' = [n \in DOMAIN heap \cup {NewRef} |->
                IF n = NewRef THEN Items
                ELSE IF n = store.items THEN <<>> ELSE heap[n]]
  /\ listRef' = [listRef EXCEPT ![c] = NewRef]
  /\ snapshot' = [snapshot EXCEPT ![c] = Items]
  /\ cleanLists' = cleanLists \cup {c}
  /\ Finish(c, ArrayResp(NewRef), FALSE)
  /\ UNCHANGED <<sent, store, running, newItem, itemIndex, initialLength, created,
                 deleted, written>>

\* return store.items;
List(c) ==
  /\ pc[c] = "pending" /\ req[c].kind = "LIST" /\ CanRun(c)
  /\ listRef' = [listRef EXCEPT ![c] = store.items]
  /\ snapshot' = [snapshot EXCEPT ![c] = Items]
  /\ cleanLists' = cleanLists \cup {c}
  /\ Finish(c, ArrayResp(store.items), FALSE)
  /\ UNCHANGED <<sent, store, heap, running, newItem, itemIndex, initialLength,
                 created, deleted, written>>

\* ---- GET /items/:id -----------------------------------------------------
\* const item = store.items.find(...); if (!item) return 404; return item;
Get(c) ==
  /\ pc[c] = "pending" /\ req[c].kind = "GET" /\ CanRun(c)
  /\ LET item == Find(Items, req[c].id) IN
       Finish(c, IF item = NoItem THEN NotFoundResp ELSE ItemResp(item),
              req[c].id \in Ids(Items))
  /\ UNCHANGED <<sent, store, heap, running, newItem, itemIndex, initialLength,
                 listRef, created, deleted, snapshot, cleanLists, written>>

\* ---- POST /items --------------------------------------------------------
\* Variant of Post70: `id: store.nextId` without the increment.
Post70NoIncrement(c) ==
  /\ pc[c] = "pending" /\ req[c].kind = "POST" /\ CanRun(c)
  /\ store.nextId <= MaxId
  /\ newItem' = [newItem EXCEPT ![c] = [id |-> store.nextId, name |-> req[c].name]]
  /\ atCall' = [atCall EXCEPT ![c] = [items |-> Items, nextId |-> store.nextId]]
  /\ running' = {c}
  /\ pc' = [pc EXCEPT ![c] = "l71"]
  /\ UNCHANGED <<sent, store, heap, req, itemIndex, initialLength, returned, listRef,
                 created, deleted, presentAtCall, snapshot, cleanLists,
                 written>>

\* Variant of Post70: `id: store.items.length + 1` instead of the counter.
Post70LengthId(c) ==
  /\ pc[c] = "pending" /\ req[c].kind = "POST" /\ CanRun(c)
  /\ store.nextId <= MaxId
  /\ newItem' = [newItem EXCEPT ![c] = [id |-> Len(Items) + 1, name |-> req[c].name]]
  /\ store' = [store EXCEPT !.nextId = store.nextId + 1]
  /\ atCall' = [atCall EXCEPT ![c] = [items |-> Items, nextId |-> store.nextId]]
  /\ running' = {c}
  /\ pc' = [pc EXCEPT ![c] = "l71"]
  /\ UNCHANGED <<sent, heap, req, itemIndex, initialLength, returned, listRef,
                 created, deleted, presentAtCall, snapshot, cleanLists,
                 written>>

\* Variant of Post70: pre-increment (`id: ++store.nextId`).
Post70PreIncrement(c) ==
  /\ pc[c] = "pending" /\ req[c].kind = "POST" /\ CanRun(c)
  /\ store.nextId <= MaxId
  /\ newItem' = [newItem EXCEPT ![c] =
                   [id |-> store.nextId + 1, name |-> req[c].name]]
  /\ store' = [store EXCEPT !.nextId = store.nextId + 1]
  /\ atCall' = [atCall EXCEPT ![c] = [items |-> Items, nextId |-> store.nextId]]
  /\ running' = {c}
  /\ pc' = [pc EXCEPT ![c] = "l71"]
  /\ UNCHANGED <<sent, heap, req, itemIndex, initialLength, returned, listRef,
                 created, deleted, presentAtCall, snapshot, cleanLists,
                 written>>

\* const newItem = { id: store.nextId++, name: body.name };
Post70(c) ==
  /\ pc[c] = "pending" /\ req[c].kind = "POST" /\ CanRun(c)
  /\ store.nextId <= MaxId
  /\ newItem' = [newItem EXCEPT ![c] = [id |-> store.nextId, name |-> req[c].name]]
  /\ store' = [store EXCEPT !.nextId = store.nextId + 1]
  /\ atCall' = [atCall EXCEPT ![c] = [items |-> Items, nextId |-> store.nextId]]
  /\ running' = {c}
  /\ pc' = [pc EXCEPT ![c] = "l71"]
  /\ UNCHANGED <<sent, heap, req, itemIndex, initialLength, returned, listRef,
                 created, deleted, presentAtCall, snapshot, cleanLists,
                 written>>

\* Variant of Post71: `store.items.unshift(newItem)` puts the new item first.
Post71Unshift(c) ==
  /\ pc[c] = "l71" /\ CanRun(c)
  /\ heap' = [heap EXCEPT ![store.items] = <<newItem[c]>> \o @]
  /\ created' = Append(created, newItem[c].id)
  /\ cleanLists' = {}
  /\ written' = Write(newItem[c].id, req[c].name)
  /\ newItem' = [newItem EXCEPT ![c] = NoItem]
  /\ running' = {}
  /\ Finish(c, ItemResp(newItem[c]), FALSE)
  /\ UNCHANGED <<sent, store, itemIndex, initialLength, listRef, deleted, snapshot>>

\* store.items.push(newItem); return newItem;
Post71(c) ==
  /\ pc[c] = "l71" /\ CanRun(c)
  /\ heap' = [heap EXCEPT ![store.items] = Append(@, newItem[c])]
  /\ created' = Append(created, newItem[c].id)
  /\ cleanLists' = {}
  /\ written' = Write(newItem[c].id, req[c].name)
  /\ newItem' = [newItem EXCEPT ![c] = NoItem]
  /\ running' = {}
  /\ Finish(c, ItemResp(newItem[c]), FALSE)
  /\ UNCHANGED <<sent, store, itemIndex, initialLength, listRef, deleted, snapshot>>

\* ---- PUT /items/:id -----------------------------------------------------
\* const itemIndex = store.items.findIndex((i) => i.id === id);
Put85(c) ==
  /\ pc[c] = "pending" /\ req[c].kind = "PUT" /\ CanRun(c)
  /\ itemIndex' = [itemIndex EXCEPT ![c] = FindIndex(Items, req[c].id)]
  /\ presentAtCall' = [presentAtCall EXCEPT ![c] = req[c].id \in Ids(Items)]
  /\ atCall' = [atCall EXCEPT ![c] = [items |-> Items, nextId |-> store.nextId]]
  /\ running' = {c}
  /\ pc' = [pc EXCEPT ![c] = "l86"]
  /\ UNCHANGED <<sent, store, heap, req, newItem, initialLength, returned, listRef,
                 created, deleted, snapshot, cleanLists, written>>

\* Variant of Put86: the new record is pushed instead of replacing the old one.
Put86Push(c) ==
  /\ pc[c] = "l86" /\ CanRun(c)
  /\ IF itemIndex[c] = -1
     THEN /\ Finish(c, NotFoundResp, presentAtCall[c])
          /\ UNCHANGED <<heap, cleanLists, written>>
     ELSE /\ heap' = [heap EXCEPT ![store.items] =
                        Append(@, [id |-> req[c].id, name |-> req[c].name])]
          /\ Finish(c, ItemResp([id |-> req[c].id, name |-> req[c].name]),
                    presentAtCall[c])
          /\ cleanLists' = {}
          /\ written' = Write(req[c].id, req[c].name)
  /\ itemIndex' = [itemIndex EXCEPT ![c] = -1]
  /\ running' = {}
  /\ UNCHANGED <<sent, store, newItem, initialLength, listRef, created, deleted,
                 snapshot>>

\* Variant of Put86: the old record is filtered out and the new one pushed,
\* which moves the item to the end of the array.
Put86MoveToEnd(c) ==
  /\ pc[c] = "l86" /\ CanRun(c)
  /\ IF itemIndex[c] = -1
     THEN /\ Finish(c, NotFoundResp, presentAtCall[c])
          /\ UNCHANGED <<heap, cleanLists, written>>
     ELSE /\ heap' = [heap EXCEPT ![store.items] =
                        Append(Filter(@, req[c].id),
                               [id |-> req[c].id, name |-> req[c].name])]
          /\ Finish(c, ItemResp([id |-> req[c].id, name |-> req[c].name]),
                    presentAtCall[c])
          /\ cleanLists' = {}
          /\ written' = Write(req[c].id, req[c].name)
  /\ itemIndex' = [itemIndex EXCEPT ![c] = -1]
  /\ running' = {}
  /\ UNCHANGED <<sent, store, newItem, initialLength, listRef, created, deleted,
                 snapshot>>

\* Variant of Put86: `if (!itemIndex)` for `if (itemIndex === -1)`: index 0
\* is answered 404, and index -1 writes the property "-1" of the array
\* object (no element changes) and returns it.
Put86Falsy(c) ==
  /\ pc[c] = "l86" /\ CanRun(c)
  /\ IF itemIndex[c] = 0
     THEN /\ Finish(c, NotFoundResp, presentAtCall[c])
          /\ UNCHANGED <<heap, cleanLists, written>>
     ELSE IF itemIndex[c] = -1
     THEN /\ Finish(c, ItemResp([id |-> req[c].id, name |-> req[c].name]),
                    presentAtCall[c])
          /\ UNCHANGED <<heap, cleanLists, written>>
     ELSE /\ heap' = [heap EXCEPT ![store.items] =
                        ArraySet(@, itemIndex[c],
                                 [id |-> req[c].id, name |-> req[c].name])]
          /\ Finish(c, ItemResp(heap'[store.items][itemIndex[c] + 1]),
                    presentAtCall[c])
          /\ cleanLists' = {}
          /\ written' = Write(req[c].id, req[c].name)
  /\ itemIndex' = [itemIndex EXCEPT ![c] = -1]
  /\ running' = {}
  /\ UNCHANGED <<sent, store, newItem, initialLength, listRef, created, deleted,
                 snapshot>>

\* Variant of Put86: the updated record is built and returned but never
\* assigned into store.items.
Put86NoStore(c) ==
  /\ pc[c] = "l86" /\ CanRun(c)
  /\ IF itemIndex[c] = -1
     THEN /\ Finish(c, NotFoundResp, presentAtCall[c])
          /\ UNCHANGED <<heap, cleanLists, written>>
     ELSE /\ Finish(c, ItemResp([id |-> req[c].id, name |-> req[c].name]),
                    presentAtCall[c])
          /\ cleanLists' = {}
          /\ written' = Write(req[c].id, req[c].name)
          /\ UNCHANGED heap
  /\ itemIndex' = [itemIndex EXCEPT ![c] = -1]
  /\ running' = {}
  /\ UNCHANGED <<sent, store, newItem, initialLength, listRef, created, deleted,
                 snapshot>>

\* if (itemIndex === -1) return 404;
\* store.items[itemIndex] = { id, name: body.name }; return store.items[itemIndex];
Put86(c) ==
  /\ pc[c] = "l86" /\ CanRun(c)
  /\ IF itemIndex[c] = -1
     THEN /\ Finish(c, NotFoundResp, presentAtCall[c])
          /\ UNCHANGED <<heap, cleanLists, written>>
     ELSE /\ heap' = [heap EXCEPT ![store.items] =
                        ArraySet(@, itemIndex[c],
                                 [id |-> req[c].id, name |-> req[c].name])]
          /\ Finish(c, ItemResp(heap'[store.items][itemIndex[c] + 1]),
                    presentAtCall[c])
          /\ cleanLists' = {}
          /\ written' = Write(req[c].id, req[c].name)
  /\ itemIndex' = [itemIndex EXCEPT ![c] = -1]
  /\ running' = {}
  /\ UNCHANGED <<sent, store, newItem, initialLength, listRef, created, deleted,
                 snapshot>>

\* ---- DELETE /items/:id --------------------------------------------------
\* const initialLength = store.items.length;
Delete106(c) ==
  /\ pc[c] = "pending" /\ req[c].kind = "DELETE" /\ CanRun(c)
  /\ initialLength' = [initialLength EXCEPT ![c] = Len(Items)]
  /\ presentAtCall' = [presentAtCall EXCEPT ![c] = req[c].id \in Ids(Items)]
  /\ atCall' = [atCall EXCEPT ![c] = [items |-> Items, nextId |-> store.nextId]]
  /\ running' = {c}
  /\ pc' = [pc EXCEPT ![c] = "l107"]
  /\ UNCHANGED <<sent, store, heap, req, newItem, itemIndex, returned, listRef,
                 created, deleted, snapshot, cleanLists, written>>

\* Variant of Delete107: `store.items.splice(store.items.findIndex(...))`
\* without a delete count removes everything from the index on (and the
\* last element for index -1), in place.
Delete107SpliceToEnd(c) ==
  /\ pc[c] = "l107" /\ CanRun(c)
  /\ LET i == FindIndex(Items, req[c].id)
         kept == IF i = -1 THEN SubSeq(Items, 1, Len(Items) - 1)
                 ELSE SubSeq(Items, 1, i)
     IN /\ heap' = [heap EXCEPT ![store.items] = kept]
        /\ cleanLists' = IF kept = Items THEN cleanLists ELSE {}
  /\ written' = Erase(req[c].id)
  /\ pc' = [pc EXCEPT ![c] = "l108"]
  /\ UNCHANGED <<sent, store, req, running, newItem, itemIndex, initialLength,
                 returned, listRef, created, deleted, presentAtCall, snapshot,
                 atCall>>

\* store.items = store.items.filter((i) => i.id !== id);
Delete107(c) ==
  /\ pc[c] = "l107" /\ CanRun(c)
  /\ heap' = [n \in Live(NewRef) |->
                IF n = NewRef THEN Filter(Items, req[c].id) ELSE heap[n]]
  /\ store' = [store EXCEPT !.items = NewRef]
  /\ cleanLists' = IF Filter(Items, req[c].id) = Items THEN cleanLists ELSE {}
  /\ written' = Erase(req[c].id)
  /\ pc' = [pc EXCEPT ![c] = "l108"]
  /\ UNCHANGED <<sent, req, running, newItem, itemIndex, initialLength, returned,
                 listRef, created, deleted, presentAtCall, snapshot, atCall>>

\* Variant of Delete108: a successful delete also winds the counter back
\* (`store.nextId--`).
Delete108Decrement(c) ==
  /\ pc[c] = "l108" /\ CanRun(c)
  /\ IF Len(Items) = initialLength[c]
     THEN /\ Finish(c, NotFoundResp, presentAtCall[c])
          /\ UNCHANGED <<deleted, store>>
     ELSE /\ Finish(c, DeletedResp, presentAtCall[c])
          /\ deleted' = deleted \cup {req[c].id}
          /\ store' = [store EXCEPT !.nextId = store.nextId - 1]
  /\ initialLength' = [initialLength EXCEPT ![c] = 0]
  /\ running' = {}
  /\ UNCHANGED <<sent, heap, newItem, itemIndex, listRef, created, snapshot,
                 cleanLists, written>>

\* Variant of Delete108: the length comparison is left out and every DELETE
\* is answered 200.
Delete108Always200(c) ==
  /\ pc[c] = "l108" /\ CanRun(c)
  /\ Finish(c, DeletedResp, presentAtCall[c])
  /\ deleted' = IF Len(Items) = initialLength[c] THEN deleted
                ELSE deleted \cup {req[c].id}
  /\ initialLength' = [initialLength EXCEPT ![c] = 0]
  /\ running' = {}
  /\ UNCHANGED <<sent, store, heap, newItem, itemIndex, listRef, created, snapshot,
                 cleanLists, written>>

\* Variant of Delete108: the comparison inverted (`!==` for `===`), so a
\* removal is answered 404 and a miss 200.
Delete108Inverted(c) ==
  /\ pc[c] = "l108" /\ CanRun(c)
  /\ IF Len(Items) # initialLength[c]
     THEN /\ Finish(c, NotFoundResp, presentAtCall[c])
          /\ UNCHANGED deleted
     ELSE /\ Finish(c, DeletedResp, presentAtCall[c])
          /\ deleted' = deleted \cup {req[c].id}
  /\ initialLength' = [initialLength EXCEPT ![c] = 0]
  /\ running' = {}
  /\ UNCHANGED <<sent, store, heap, newItem, itemIndex, listRef, created, snapshot,
                 cleanLists, written>>

\* if (store.items.length === initialLength) return 404; return 200;
Delete108(c) ==
  /\ pc[c] = "l108" /\ CanRun(c)
  /\ IF Len(Items) = initialLength[c]
     THEN /\ Finish(c, NotFoundResp, presentAtCall[c])
          /\ UNCHANGED deleted
     ELSE /\ Finish(c, DeletedResp, presentAtCall[c])
          /\ deleted' = deleted \cup {req[c].id}
  /\ initialLength' = [initialLength EXCEPT ![c] = 0]
  /\ running' = {}
  /\ UNCHANGED <<sent, store, heap, newItem, itemIndex, listRef, created, snapshot,
                 cleanLists, written>>

\* ---- specification ------------------------------------------------------
Next ==
  \E c \in Clients :
    \/ Arrive(c)
    \/ List(c)
    \/ Get(c)
    \/ Post70(c)
    \/ Post71(c)
    \/ Put85(c)
    \/ Put86(c)
    \/ Delete106(c)
    \/ Delete107(c)
    \/ Delete108(c)

Spec == Init /\ [][Next]_vars

\* ---- properties ---------------------------------------------------------
ById(request) == request.kind \in {"GET", "PUT", "DELETE"}

\* C1: the ids returned by successive POST /items calls are strictly
\* increasing in the order the calls return, hence pairwise distinct.
C1_CreateIdsIncreasing ==
  \A i, j \in 1..Len(created) : i < j => created[i] < created[j]

\* two Creates have returned and a Delete has succeeded
C1_Witness == Len(created) = 2 /\ deleted # {}

\* C2: nextId is strictly greater than every id in the store and every id
\* ever returned by a Create, including ids of items deleted since.
C2_NextIdAboveIssued ==
  /\ \A i \in 1..Len(created) : created[i] < store.nextId
  /\ \A id \in Ids(Items) : id < store.nextId
  /\ \A id \in deleted : id < store.nextId

\* an id was issued and deleted, and another item is still stored
C2_Witness == 1 \in deleted /\ Ids(Items) = {2} /\ store.nextId = 3

\* C3: no two items in store.items have the same id.
C3_UniqueIds ==
  \A i, j \in 1..Len(Items) : i # j => Items[i].id # Items[j].id

\* two items are stored and a PUT has just replaced one of them
C3_Witness ==
  /\ Len(Items) = 2
  /\ returned.req.kind = "PUT" /\ returned.resp.status = 200

\* C4: after a successful Delete(id) no item with that id is in the store:
\* every later List omits it, every later Get(id) is NotFound and no later
\* Create returns that id.
C4_DeletedStaysGone ==
  /\ [](\A id \in deleted : id \notin Ids(Items))
  /\ [][\A c \in Clients :
          /\ List(c) => \A id \in deleted : id \notin Ids(snapshot'[c])
          /\ (Get(c) /\ req[c].id \in deleted) => returned'.resp = NotFoundResp
          /\ Post71(c) => returned'.resp.item.id \notin deleted]_vars

\* id 1 was created and deleted, and the next Create returned id 2
C4_Witness ==
  /\ 1 \in deleted /\ created = <<1, 2>>
  /\ returned.req.kind = "POST" /\ returned.resp.item.id = 2

\* C5: Get(id), Update(id, name) and Delete(id) answer 404 "Item not found"
\* whenever no item with that id is in the store at the time of the call,
\* for ids never issued as for ids issued and deleted.
C5_AbsentIsNotFound ==
  (ById(returned.req) /\ ~returned.present) => returned.resp = NotFoundResp

\* a second DELETE of an id that was issued and deleted is answered 404
C5_Witness ==
  /\ returned.req.kind = "DELETE" /\ returned.req.id \in deleted
  /\ ~returned.present /\ returned.resp = NotFoundResp

\* C6: a successful Update(id, name) changes only the name of the item with
\* that id: same length, same index and id, every other item unchanged,
\* nextId unchanged.
C6_UpdateOnlyName ==
  [][\A c \in Clients :
       (Put86(c) /\ itemIndex[c] # -1) =>
         LET k == itemIndex[c] + 1
             old == Items
             new == heap'[store'.items]
         IN /\ Len(new) = Len(old)
            /\ old[k].id = req[c].id
            /\ new[k] = [id |-> req[c].id, name |-> req[c].name]
            /\ \A i \in 1..Len(old) : i # k => new[i] = old[i]
            /\ store' = store]_vars

\* the first of two stored items has just been renamed
C6_Witness ==
  /\ Len(Items) = 2
  /\ returned.req = [kind |-> "PUT", id |-> 1, name |-> "Gadget"]
  /\ returned.resp.status = 200
  /\ Items[1] = [id |-> 1, name |-> "Gadget"]
  /\ Items[2] = [id |-> 2, name |-> "Widget"]

\* C7: the sequence returned by a List call is a snapshot: no Create, Update
\* or Delete that takes effect after the List returned changes it.
C7_ListIsSnapshot ==
  \A c \in Clients : listRef[c] # 0 => heap[listRef[c]] = snapshot[c]

\* C8: store operations are serialized: at most one handler is part-way
\* through at any time, List and Get never run while the counter has been
\* incremented for an item not yet appended, and no two Creates return the
\* same id.
InHandler(c) == pc[c] \in {"l71", "l86", "l107", "l108"}
PartialCreate == store.nextId - 1 # Len(created)
C8_Serialized ==
  /\ [](Cardinality({c \in Clients : InHandler(c)}) <= 1)
  /\ [](\A i, j \in 1..Len(created) : i # j => created[i] # created[j])
  /\ [][\A c \in Clients : (List(c) \/ Get(c)) => ~PartialCreate]_vars

\* a read is pending while a Create is part-way through
C8_Witness ==
  \E c1, c2 \in Clients :
    /\ pc[c1] = "l71" /\ PartialCreate
    /\ pc[c2] = "pending" /\ req[c2].kind \in {"LIST", "GET"}

\* C9: GET, PUT and DELETE on /items/:id answer 404 "Item not found" exactly
\* when the id is absent at the time of the call and otherwise 200 (with the
\* item for GET and PUT, with "Item deleted successfully" for DELETE);
\* GET /items and POST /items always answer 200.
C9_OutcomeMapping ==
  LET q == returned.req
      a == returned.resp
  IN /\ ById(q) => (a = NotFoundResp <=> ~returned.present)
     /\ (ById(q) /\ returned.present) =>
          /\ a.status = 200
          /\ q.kind = "GET" => a.text = "" /\ a.item.id = q.id
          /\ q.kind = "PUT" =>
               a.text = "" /\ a.item = [id |-> q.id, name |-> q.name]
          /\ q.kind = "DELETE" => a = DeletedResp
     /\ q.kind = "LIST" => a.status = 200 /\ a.ref # 0
     /\ q.kind = "POST" => a.status = 200 /\ a.item.id >= 1

\* a PUT of an id that a DELETE removed with a 200 is answered 404
C9_Witness ==
  /\ returned.req.kind = "PUT" /\ returned.req.id \in deleted
  /\ returned.resp = NotFoundResp

\* C10: two List calls with no Create, Update or Delete taking effect in
\* between yield identical sequences.
C10_ListTwiceSame ==
  [][\A c \in Clients :
       List(c) => \A d \in cleanLists : snapshot'[c] = snapshot[d]]_vars

\* two Lists of a store of two items with no mutation in between
C10_Witness ==
  cleanLists = Clients /\ \A c \in Clients : Len(snapshot[c]) = 2

\* C11: after a successful Create(name) or Update(id, name), Get(id) returns
\* the item with that id and the name written last, as long as no later
\* Update or Delete of that id has taken effect.
C11_GetReadsLastWrite ==
  [][\A c \in Clients :
       Get(c) =>
         \A w \in written :
           w.id = req[c].id =>
             returned'.resp = ItemResp([id |-> w.id, name |-> w.name])]_vars

\* item 1 was listed as "Widget", renamed by a PUT, and a GET returned "Gadget"
C11_Witness ==
  /\ \E c \in Clients : snapshot[c] = <<[id |-> 1, name |-> "Widget"]>>
  /\ written = {[id |-> 1, name |-> "Gadget"]}
  /\ returned.req.kind = "GET"
  /\ returned.resp = ItemResp([id |-> 1, name |-> "Gadget"])

\* C12: Create(name) with the counter at n returns the item {id: n, name},
\* sets nextId to n + 1 and leaves the sequence equal to the previous one
\* with that item appended last.
C12_CreateAppends ==
  [][\A c \in Clients :
       Post71(c) =>
         LET item == [id |-> atCall[c].nextId, name |-> req[c].name]
         IN /\ returned'.resp = ItemResp(item)
            /\ store'.nextId = atCall[c].nextId + 1
            /\ heap'[store'.items] = Append(atCall[c].items, item)]_vars

\* a second item has just been created behind the first
C12_Witness ==
  /\ returned.req = [kind |-> "POST", id |-> -1, name |-> "Gadget"]
  /\ returned.resp = ItemResp([id |-> 2, name |-> "Gadget"])
  /\ Items = <<[id |-> 1, name |-> "Widget"], [id |-> 2, name |-> "Gadget"]>>
  /\ store.nextId = 3

\* C13: a successful Delete(id) removes exactly the one item with that id:
\* the sequence is one shorter and the remaining items keep their ids, names
\* and relative order.
C13_DeleteRemovesOne ==
  [][\A c \in Clients :
       (Delete108(c) /\ returned'.resp = DeletedResp) =>
         LET old == atCall[c].items
             new == heap'[store'.items]
         IN /\ Len(new) = Len(old) - 1
            /\ \E k \in 1..Len(old) :
                 /\ old[k].id = req[c].id
                 /\ new = SubSeq(old, 1, k - 1) \o SubSeq(old, k + 1, Len(old))]_vars

\* the first of two items has just been deleted and the second remains
C13_Witness ==
  /\ returned.req.kind = "DELETE" /\ returned.req.id = 1
  /\ returned.resp = DeletedResp
  /\ Len(Items) = 1 /\ Items[1].id = 2

\* C14: nextId is changed only by Create, which increases it by exactly 1;
\* Delete (successful or NotFound), Update, Get and List leave it unchanged,
\* so nextId never decreases.
C14_OnlyCreateMovesNextId ==
  [][/\ store'.nextId # store.nextId =>
          /\ \E c \in Clients : Post70(c)
          /\ store'.nextId = store.nextId + 1
     /\ \A c \in Clients :
          (\/ List(c) \/ Get(c) \/ Put85(c) \/ Put86(c)
           \/ Delete106(c) \/ Delete107(c) \/ Delete108(c))
            => store'.nextId = store.nextId]_vars

\* the only item was deleted and the counter still stands at 2
C14_Witness ==
  /\ returned.req.kind = "DELETE" /\ returned.resp = DeletedResp
  /\ Items = <<>> /\ store.nextId = 2

\* C15: the store starts empty with nextId = 1, and the k-th Create to take
\* effect returns id k, whatever Update, Delete, Get and List calls are
\* interleaved.
C15_KthCreateReturnsK ==
  /\ sent = 0 => (store.nextId = 1 /\ Items = <<>>)
  /\ \A k \in 1..Len(created) : created[k] = k

\* two Creates with a List and a successful Delete of id 1 around them
C15_Witness ==
  /\ Len(created) = 2 /\ created[2] = 2
  /\ deleted = {1}
  /\ \E c \in Clients : listRef[c] # 0

\* C16: List (GET /items) and Get (GET /items/:id) have no side effects: the
\* item sequence and nextId are the same before and after the call, whether
\* Get succeeds or answers NotFound.
C16_ReadsHaveNoEffect ==
  [][\A c \in Clients :
       (List(c) \/ Get(c)) =>
         /\ heap'[store'.items] = Items
         /\ store' = store]_vars

\* a List and then a Get answered NotFound, with one item in the store
C16_Witness ==
  /\ returned.req.kind = "GET" /\ returned.resp = NotFoundResp
  /\ Len(Items) = 1
  /\ \E c \in Clients : listRef[c] # 0 /\ Len(snapshot[c]) = 1

\* C17: an Update(id, name) or Delete(id) that ends in NotFound leaves the
\* store as it was when the call began: the same items with the same names
\* in the same order and the same nextId, although Delete has reassigned
\* store.items to a newly filtered array.
C17_NotFoundChangesNothing ==
  [][\A c \in Clients :
       ((Put86(c) \/ Delete108(c)) /\ returned'.resp = NotFoundResp) =>
         /\ heap'[store'.items] = atCall[c].items
         /\ store'.nextId = atCall[c].nextId]_vars

\* a DELETE of an absent id was answered 404; store.items is a new array
\* holding the same item
C17_Witness ==
  /\ returned.req.kind = "DELETE" /\ returned.resp = NotFoundResp
  /\ store.items # 1
  /\ Len(Items) = 1 /\ Items[1] \in written

\* C18: the items in store.items are ordered by strictly increasing id, so
\* List returns them sorted by id, after any Create, Update and Delete.
C18_SortedById ==
  \A i, j \in 1..Len(Items) : i < j => Items[i].id < Items[j].id

\* items 1 and 2 are stored in that order after a PUT has replaced item 2
C18_Witness ==
  /\ Len(Items) = 2 /\ Items[1].id = 1 /\ Items[2].id = 2
  /\ returned.req.kind = "PUT" /\ returned.req.id = 2
  /\ returned.resp.status = 200

\* C19: every id in store.items is an integer in 1..nextId-1, so at most
\* nextId-1 items are stored and Get, Update and Delete with id 0 or with an
\* id >= nextId end in NotFound.
C19_IdsBelowNextId ==
  /\ Ids(Items) \subseteq 1..(store.nextId - 1)
  /\ Len(Items) <= store.nextId - 1
  /\ (ById(returned.req) /\ (returned.req.id = 0 \/ returned.req.id >= store.nextId))
       => returned.resp = NotFoundResp

\* with item 1 stored and nextId = 2, a PUT of id 2 was answered 404
C19_Witness ==
  /\ Ids(Items) = {1} /\ store.nextId = 2
  /\ returned.req.kind = "PUT" /\ returned.req.id = 2
  /\ returned.resp = NotFoundResp

====
